---------------------------- MODULE Spec2Model ----------------------------
(***************************************************************************)
(* Verification model of amptorch/NN_model.py: the per-element networks    *)
(* (MLP), the composite model (FullNN.forward) and the loss family         *)
(* (CustomLoss, MSLELoss, TanhLoss).                                       *)
(*                                                                         *)
(* Conventions.  Python sequences are 0-based; TLA+ sequences are 1-based, *)
(* so a position i of a tensor is position i+1 here.  Owner indices (the   *)
(* values stored in the tensors) keep their 0-based values.  Tensor values *)
(* of the forward pass are integers: the sub-network of an element is a    *)
(* fixed function of the descriptor (NetOut) with a fixed derivative       *)
(* (NetGrad); sums and products are exact.                                 *)
(***************************************************************************)
EXTENDS Integers, Sequences, FiniteSets, TLC

(* ------------------------------ bounds -------------------------------- *)
MaxAtoms == 2
MaxBatch == 2
MaxP == 3

Symbols == {"A", "B"}
None == [none |-> TRUE]

VARIABLES
    unique_atoms, forcetraining, input_length, input_data, batch_size, fprimes,
    pc, index, energy_pred, energy_graph, dE_dFP, idx, ordered_idx, dE_row,
    force_pred, result, error

VARIABLES
    mlp_pc, n_input_nodes, n_output_nodes, n_layers, n_hidden_size, n_neurons,
    model_net, mlp_out

VARIABLES
    loss_pc, variant, alpha, model, uninit, energy_targets, num_atoms,
    l_energy_pred, l_idx, l_force_pred, force_targets, num_atoms_force,
    normalizer, loss

mlpvars == <<mlp_pc, n_input_nodes, n_output_nodes, n_layers, n_hidden_size,
             n_neurons, model_net, mlp_out>>

lossvars == <<loss_pc, variant, alpha, model, uninit, energy_targets, num_atoms,
              l_energy_pred, l_idx, l_force_pred, force_targets,
              num_atoms_force, normalizer, loss>>

fwdvars == <<unique_atoms, forcetraining, input_length, input_data, batch_size,
             fprimes, pc, index, energy_pred, energy_graph, dE_dFP, idx,
             ordered_idx, dE_row, force_pred, result, error>>

(* ------------------------- generic helpers ---------------------------- *)
RECURSIVE SumSeq(_)
SumSeq(s) == IF s = <<>> THEN 0 ELSE s[1] + SumSeq(Tail(s))

RECURSIVE Flatten(_)
Flatten(rows) == IF rows = <<>> THEN <<>> ELSE rows[1] \o Flatten(Tail(rows))

RECURSIVE SortedSeq(_)
SortedSeq(S) ==
    IF S = {} THEN <<>>
    ELSE LET m == CHOOSE x \in S : \A y \in S : x <= y
         IN <<m>> \o SortedSeq(S \ {m})

Range(s) == {s[i] : i \in 1..Len(s)}

Perms(s) ==
    {p \in [1..Len(s) -> Range(s)] : \A i, j \in 1..Len(s) : i # j => p[i] # p[j]}

(* ---------------------- MLP.forward as a function --------------------- *)
\* atomwise output of the element's sub-network for a descriptor d
NetOut(element, d) == IF element = "A" THEN d ELSE 10 * d

\* row of d(output)/d(descriptor), one entry per descriptor component
NetGrad(element, d, P) ==
    [j \in 1..P |-> (IF element = "A" THEN 1 ELSE 5) * d + 2 * j]

(* ------------------------- tensor operations -------------------------- *)
\* torch.zeros(batch_size, 1): rows 0..batch_size-1
Zeros(n) == [s \in 0..(n - 1) |-> 0]

\* faulty variant: index_put_: a later atom overwrites the row instead of adding to it
RECURSIVE IndexPut(_, _, _)
IndexPut(self, contribution_index, source) ==
    IF contribution_index = <<>> THEN self
    ELSE IndexPut([self EXCEPT ![contribution_index[1]] = source[1]],
                  Tail(contribution_index), Tail(source))

\* energy_pred.index_add_(0, index, source): row index[i] += source[i]
RECURSIVE IndexAdd(_, _, _)
IndexAdd(self, contribution_index, source) ==
    IF contribution_index = <<>> THEN self
    ELSE IndexAdd([self EXCEPT ![contribution_index[1]] = @ + source[1]],
                  Tail(contribution_index), Tail(source))

\* the autograd history of the same index_add_: which atom outputs a row holds
RECURSIVE GraphAdd(_, _, _, _)
GraphAdd(graph, contribution_index, element, k) ==
    IF k > Len(contribution_index) THEN graph
    ELSE GraphAdd([graph EXCEPT ![contribution_index[k]] = Append(@, <<element, k>>)],
                  contribution_index, element, k + 1)

Occurrences(s, x) == Cardinality({i \in 1..Len(s) : s[i] = x})

\* grad(energy_pred, model_inputs, grad_outputs=ones): row k is the sum over the
\* rows of energy_pred of d(row)/d(model_inputs[k])
Grad(graph, element, model_inputs, P) ==
    [k \in 1..Len(model_inputs) |->
        LET cnt == SumSeq([s \in 1..Len(SortedSeq(DOMAIN graph)) |->
                       Occurrences(graph[SortedSeq(DOMAIN graph)[s]], <<element, k>>)])
        IN [j \in 1..P |-> cnt * NetGrad(element, model_inputs[k], P)[j]]]

\* torch.unique(idx): the distinct values, ascending
Unique(t) == SortedSeq(Range(t))

\* idx[:, None] == torch.unique(idx)
Boolean(t) == [i \in 1..Len(t) |-> [u \in 1..Len(Unique(t)) |-> t[i] = Unique(t)[u]]]

\* boolean.t() of a Len(t) x Len(Unique(t)) matrix
BooleanT(t) == [u \in 1..Len(Unique(t)) |-> [i \in 1..Len(t) |-> Boolean(t)[i][u]]]

\* torch.nonzero(m): the <<row, column>> pairs of the true entries, row-major
RECURSIVE NonzeroFrom(_, _, _, _)
NonzeroFrom(m, ncols, r, c) ==
    IF r > Len(m) THEN <<>>
    ELSE IF c > ncols THEN NonzeroFrom(m, ncols, r + 1, 1)
    ELSE (IF m[r][c] THEN <<(<<r, c>>)>> ELSE <<>>) \o NonzeroFrom(m, ncols, r, c + 1)

Nonzero(m, ncols) == NonzeroFrom(m, ncols, 1, 1)

LastColumn(pairs) == [i \in 1..Len(pairs) |-> pairs[i][2]]

\* faulty variant: the transposition forgotten: torch.nonzero(boolean)[:, -1]
OrderedIdxNoT(t) == LastColumn(Nonzero(Boolean(t), Len(Unique(t))))

\* ordered_idx = torch.nonzero(boolean.t())[:, -1]
OrderedIdx(t) == LastColumn(Nonzero(BooleanT(t), Len(t)))

\* torch.index_select(rows, 0, sel)
IndexSelect(rows, sel) == [i \in 1..Len(sel) |-> rows[sel[i]]]

\* A SparseForceMap is [rows, cols, t]: its shape, and whether it is the
\* transposed view of the stored map.  The stored entries are fixed small
\* integers given by their position.
StoredEntry(r, c) == ((r + 2 * c) % 3) - 1

Entry(M, r, c) == IF M.t THEN StoredEntry(c, r) ELSE StoredEntry(r, c)

\* faulty variant: fprimes used as given, without .t()
NoTranspose(M) == M

\* M.t()
Transpose(M) == [rows |-> M.cols, cols |-> M.rows, t |-> ~M.t]

\* torch.sparse.mm(A, v) for a column v: defined when A.cols = Len(v)
MMValid(A, v) == A.cols = Len(v)

MM(A, v) == [r \in 1..A.rows |-> SumSeq([c \in 1..A.cols |-> Entry(A, r, c) * v[c]])]

\* t.reshape(-1, 3): defined when the length is a multiple of 3
Reshape3Valid(v) == Len(v) % 3 = 0

Reshape3(v) ==
    [a \in 1..(Len(v) \div 3) |-> <<v[3 * a - 2], v[3 * a - 1], v[3 * a]>>]


(* --------------------------- the batch -------------------------------- *)
\* An ElementGroup is <<descriptors, owner indices>> (input_data[element][0] and
\* input_data[element][1] of the code).  The k-th atom of a group carries
\* descriptor k, so the atoms of one group are told apart.
Groups(n) ==
    UNION {{<<[k \in 1..q |-> k], o>> : o \in [1..q -> 0..(n - 1)]} : q \in 1..MaxAtoms}

Batches(n) ==
    UNION {[D -> Groups(n)] : D \in (SUBSET Symbols) \ {{}}}

\* orders of the model's elements: sequences over Symbols without repetition
UniqueAtomLists ==
    UNION {{u \in [1..n -> Symbols] : \A i, j \in 1..n : i # j => u[i] # u[j]} :
           n \in 1..Cardinality(Symbols)}

\* Q: number of atoms in the batch
RECURSIVE AtomsIn(_, _)
AtomsIn(data, D) ==
    IF D = {} THEN 0
    ELSE LET e == CHOOSE x \in D : TRUE
         IN Len(data[e][2]) + AtomsIn(data, D \ {e})

TotalAtoms(data) == AtomsIn(data, DOMAIN data)

\* a SparseForceMap with the given shape
FprimesOf(nrows, ncols) == [rows |-> nrows, cols |-> ncols, t |-> FALSE]

\* the two shapes a caller may give the map for a batch of Q atoms
FprimesChoices(P, Q) == {None, FprimesOf(P * Q, 3 * Q), FprimesOf(3 * Q, P * Q)}

(* ----------------------- FullNN.forward, by parts --------------------- *)
\* the state of the loop over unique_atoms
LoopInit(n) ==
    [ok |-> TRUE, energy_pred |-> Zeros(n),
     energy_graph |-> [s \in 0..(n - 1) |-> <<>>], dE_dFP |-> <<>>, idx |-> <<>>]

AtomwiseOutputs(element, model_inputs) ==
    [k \in 1..Len(model_inputs) |-> NetOut(element, model_inputs[k])]

\* input_data[element]: a mapping lookup, which fails for a missing key
HasGroup(data, element) == element \in DOMAIN data

\* lines 135-147 for an element whose group the batch holds
LoopBodyPresent(st, data, element, force, P) ==
    LET model_inputs == data[element][1]
        contribution_index == data[element][2]
        atomwise_outputs == AtomwiseOutputs(element, model_inputs)
        e1 == IndexAdd(st.energy_pred, contribution_index, atomwise_outputs)
        g1 == GraphAdd(st.energy_graph, contribution_index, element, 1)
    IN IF force
       THEN [ok |-> TRUE, energy_pred |-> e1, energy_graph |-> g1,
             dE_dFP |-> st.dE_dFP \o Grad(g1, element, model_inputs, P),
             idx |-> st.idx \o contribution_index]
       ELSE [st EXCEPT !.energy_pred = e1, !.energy_graph = g1]

\* faulty variant: an element without a group is skipped instead of failing
LoopBodySkipMissing(st, data, element, force, P) ==
    IF ~HasGroup(data, element) THEN st
    ELSE LoopBodyPresent(st, data, element, force, P)

\* one iteration of the loop (lines 135-147); ok = FALSE is the KeyError
LoopBody(st, data, element, force, P) ==
    IF ~HasGroup(data, element) THEN [st EXCEPT !.ok = FALSE]
    ELSE LoopBodyPresent(st, data, element, force, P)

\* lines 149-158: reorder the gradient rows, multiply, reshape
ForceTail(rows, owners, fp) ==
    LET oi == OrderedIdx(owners)
        row == Flatten(IndexSelect(rows, oi))
        A == Transpose(fp)
    IN IF ~MMValid(A, row)
       THEN [ok |-> FALSE, ordered_idx |-> oi, dE_row |-> row, force_pred |-> None]
       ELSE LET prod == [r \in 1..A.rows |-> -1 * MM(A, row)[r]]
            IN IF ~Reshape3Valid(prod)
               THEN [ok |-> FALSE, ordered_idx |-> oi, dE_row |-> row,
                     force_pred |-> None]
               ELSE [ok |-> TRUE, ordered_idx |-> oi, dE_row |-> row,
                     force_pred |-> Reshape3(prod)]

(* ----------------------------- actions -------------------------------- *)
InitForward ==
    /\ unique_atoms \in UniqueAtomLists
    /\ batch_size \in 1..MaxBatch
    /\ input_data \in Batches(batch_size)
    /\ forcetraining \in BOOLEAN
    /\ input_length \in (IF forcetraining THEN 1..MaxP ELSE {1})
    /\ fprimes \in (IF forcetraining
                    THEN FprimesChoices(input_length, TotalAtoms(input_data))
                    ELSE {None})
    /\ pc = "start"
    /\ index = 0
    /\ energy_pred = None
    /\ energy_graph = None
    /\ dE_dFP = None
    /\ idx = None
    /\ ordered_idx = None
    /\ dE_row = None
    /\ force_pred = None
    /\ result = None
    /\ error = "none"

\* lines 125-133
Start ==
    /\ pc = "start"
    /\ IF forcetraining /\ fprimes = None
       THEN /\ pc' = "failed"
            /\ error' = "AttributeError"
            /\ UNCHANGED <<energy_pred, energy_graph, dE_dFP, idx, force_pred>>
       ELSE /\ pc' = "loop"
            /\ energy_pred' = LoopInit(batch_size).energy_pred
            /\ energy_graph' = LoopInit(batch_size).energy_graph
            /\ force_pred' = None
            /\ dE_dFP' = IF forcetraining THEN <<>> ELSE None
            /\ idx' = IF forcetraining THEN <<>> ELSE None
            /\ UNCHANGED error
    /\ UNCHANGED <<unique_atoms, forcetraining, input_length, input_data,
                   batch_size, fprimes, index, ordered_idx, dE_row, result>>
    /\ UNCHANGED <<mlpvars, lossvars>>

LoopState ==
    [ok |-> TRUE, energy_pred |-> energy_pred, energy_graph |-> energy_graph,
     dE_dFP |-> dE_dFP, idx |-> idx]

\* lines 134-147, one element of unique_atoms
Element ==
    /\ pc = "loop"
    /\ index < Len(unique_atoms)
    /\ LET st == LoopBody(LoopState, input_data, unique_atoms[index + 1],
                          forcetraining, input_length)
       IN IF ~st.ok
          THEN /\ pc' = "failed"
               /\ error' = "KeyError"
               /\ UNCHANGED <<index, energy_pred, energy_graph, dE_dFP, idx>>
          ELSE /\ index' = index + 1
               /\ energy_pred' = st.energy_pred
               /\ energy_graph' = st.energy_graph
               /\ dE_dFP' = st.dE_dFP
               /\ idx' = st.idx
               /\ UNCHANGED <<pc, error>>
    /\ UNCHANGED <<unique_atoms, forcetraining, input_length, input_data,
                   batch_size, fprimes, ordered_idx, dE_row, force_pred, result>>
    /\ UNCHANGED <<mlpvars, lossvars>>

\* lines 148-158
Force ==
    /\ pc = "loop"
    /\ index = Len(unique_atoms)
    /\ forcetraining
    /\ LET t == ForceTail(dE_dFP, idx, fprimes)
       IN /\ ordered_idx' = t.ordered_idx
          /\ dE_row' = t.dE_row
          /\ force_pred' = t.force_pred
          /\ pc' = IF t.ok THEN "return" ELSE "failed"
          /\ error' = IF t.ok THEN error ELSE "RuntimeError"
    /\ UNCHANGED <<unique_atoms, forcetraining, input_length, input_data,
                   batch_size, fprimes, index, energy_pred, energy_graph, dE_dFP,
                   idx, result>>
    /\ UNCHANGED <<mlpvars, lossvars>>

\* line 162
Return ==
    /\ \/ pc = "return"
       \/ pc = "loop" /\ index = Len(unique_atoms) /\ ~forcetraining
    /\ pc' = "done"
    /\ result' = <<energy_pred, force_pred>>
    /\ UNCHANGED <<unique_atoms, forcetraining, input_length, input_data,
                   batch_size, fprimes, index, energy_pred, energy_graph, dE_dFP,
                   idx, ordered_idx, dE_row, force_pred, error>>
    /\ UNCHANGED <<mlpvars, lossvars>>

(* ============================ MLP ===================================== *)
MaxLayers == 4
MaxHidden == 3
Widths == {1, 2}

\* n_hidden_size is an int or a list of ints
HiddenSizes ==
    {[int |-> TRUE, size |-> w] : w \in Widths}
    \cup UNION {{[int |-> FALSE, sizes |-> l] : l \in [1..h -> Widths]} : h \in 0..MaxHidden}

Repeat(x, n) == [i \in 1..n |-> x]

\* lines 69-71
Neurons(nin, nout, L, hidden) ==
    <<nin>> \o (IF hidden.int THEN Repeat(hidden.size, L - 1) ELSE hidden.sizes) \o <<nout>>

\* whether MLP.__init__ raises: line 74 reads n_neurons[i] and n_neurons[i + 1]
\* for i in range(n_layers - 1) (0-based), and an index past the end of the
\* list is an IndexError; lines 71 and 77 cannot fail
InitRaises(neurons, L) == \E i \in 0..(L - 2) : i + 1 > Len(neurons) - 1

\* lines 73-77: a Dense layer is <<input_size, output_size, activated>>
Layers(neurons, L) ==
    [i \in 1..(L - 1) |-> <<neurons[i], neurons[i + 1], TRUE>>]
    \o << <<neurons[Len(neurons) - 1], neurons[Len(neurons)], FALSE>> >>

\* nn.Sequential over Dense layers, applied to an input of the given width:
\* the width of the output, or 0 when a layer's input_size does not match
RECURSIVE Sequential(_, _)
Sequential(layers, width) ==
    IF layers = <<>> THEN width
    ELSE IF layers[1][1] # width THEN 0
    ELSE Sequential(Tail(layers), layers[1][2])

InitMLP ==
    /\ mlp_pc = "new"
    /\ n_input_nodes \in Widths
    /\ n_output_nodes = 1
    /\ n_layers \in 2..MaxLayers
    /\ n_hidden_size \in HiddenSizes
    /\ n_neurons = <<>>
    /\ model_net = <<>>
    /\ mlp_out = 0

\* MLP.__init__ (lines 60-78)
MLPInit ==
    /\ mlp_pc = "new"
    /\ n_neurons' = Neurons(n_input_nodes, n_output_nodes, n_layers, n_hidden_size)
    /\ IF InitRaises(n_neurons', n_layers)
       THEN /\ mlp_pc' = "init_failed"
            /\ model_net' = <<>>
       ELSE /\ mlp_pc' = "built"
            /\ model_net' = Layers(n_neurons', n_layers)
    /\ UNCHANGED <<n_input_nodes, n_output_nodes, n_layers, n_hidden_size, mlp_out>>
    /\ UNCHANGED <<fwdvars, lossvars>>

\* MLP.forward (lines 80-86) on one descriptor of n_input_nodes entries
MLPForward ==
    /\ mlp_pc = "built"
    /\ mlp_out' = Sequential(model_net, n_input_nodes)
    /\ mlp_pc' = IF mlp_out' = 0 THEN "forward_failed" ELSE "forward_done"
    /\ UNCHANGED <<n_input_nodes, n_output_nodes, n_layers, n_hidden_size,
                   n_neurons, model_net>>
    /\ UNCHANGED <<fwdvars, lossvars>>

\* the variables of a component that is not exercised
IdleFwd ==
    /\ unique_atoms = <<"A">> /\ forcetraining = FALSE /\ input_length = 1
    /\ input_data = [e \in {"A"} |-> <<<<1>>, <<0>>>>] /\ batch_size = 1
    /\ fprimes = None /\ pc = "idle" /\ index = 0 /\ energy_pred = None
    /\ energy_graph = None /\ dE_dFP = None /\ idx = None /\ ordered_idx = None
    /\ dE_row = None /\ force_pred = None /\ result = None /\ error = "none"

IdleMLP ==
    /\ mlp_pc = "idle" /\ n_input_nodes = 1 /\ n_output_nodes = 1 /\ n_layers = 2
    /\ n_hidden_size = [int |-> TRUE, size |-> 1] /\ n_neurons = <<>>
    /\ model_net = <<>> /\ mlp_out = 0

(* ========================= loss family ================================ *)
\* Tensor entries of the losses are extended rationals [k, n, d]: a finite
\* value n/d in lowest terms, NaN, or an infinity of sign n.
NaN == [k |-> "nan", n |-> 0, d |-> 1]
PInf == [k |-> "inf", n |-> 1, d |-> 1]
NInf == [k |-> "inf", n |-> -1, d |-> 1]

Abs(x) == IF x < 0 THEN -x ELSE x
Sgn(x) == IF x < 0 THEN -1 ELSE IF x = 0 THEN 0 ELSE 1

RECURSIVE GCD(_, _)
GCD(a, b) == IF b = 0 THEN a ELSE GCD(b, a % b)

Fin(n, d) ==
    LET g == GCD(Abs(n), Abs(d))
    IN [k |-> "fin", n |-> Sgn(d) * (n \div g), d |-> Abs(d) \div g]

Inf(sign) == IF sign < 0 THEN NInf ELSE PInf

ERNeg(x) == IF x.k = "nan" THEN NaN ELSE [x EXCEPT !.n = -x.n]

ERAdd(x, y) ==
    IF x.k = "nan" \/ y.k = "nan" THEN NaN
    ELSE IF x.k = "inf" /\ y.k = "inf" THEN (IF x.n = y.n THEN x ELSE NaN)
    ELSE IF x.k = "inf" THEN x
    ELSE IF y.k = "inf" THEN y
    ELSE Fin(x.n * y.d + y.n * x.d, x.d * y.d)

ERSub(x, y) == ERAdd(x, ERNeg(y))

ERMul(x, y) ==
    IF x.k = "nan" \/ y.k = "nan" THEN NaN
    ELSE IF x.k = "inf" \/ y.k = "inf"
         THEN (IF x.n = 0 \/ y.n = 0 THEN NaN ELSE Inf(Sgn(x.n) * Sgn(y.n)))
    ELSE Fin(x.n * y.n, x.d * y.d)

\* torch.div on floats: x / 0 is an infinity, 0 / 0 is NaN
ERDiv(x, y) ==
    IF x.k = "nan" \/ y.k = "nan" THEN NaN
    ELSE IF x.k = "inf" /\ y.k = "inf" THEN NaN
    ELSE IF x.k = "inf" THEN Inf(x.n * (IF y.n < 0 THEN -1 ELSE 1))
    ELSE IF y.k = "inf" THEN Fin(0, 1)
    ELSE IF y.n = 0 THEN (IF x.n = 0 THEN NaN ELSE Inf(x.n))
    ELSE Fin(x.n * y.d, x.d * y.n)

RECURSIVE ERSum(_)
ERSum(s) == IF s = <<>> THEN Fin(0, 1) ELSE ERAdd(s[1], ERSum(Tail(s)))

\* nn.MSELoss(reduction="sum") over two flat tensors of extended rationals
MSESum(a, b) ==
    ERSum([i \in 1..Len(a) |-> ERMul(ERSub(a[i], b[i]), ERSub(a[i], b[i]))])

\* torch.div(energy, num_atoms), entry by entry
PerAtom(energy, counts) ==
    [i \in 1..Len(energy) |-> ERDiv(Fin(energy[i], 1), Fin(counts[i], 1))]

\* faulty variant: every count once: torch.cat([idx for idx in num_atoms])
NoRepeat(counts) == counts

\* line 195: torch.cat([idx.repeat(int(idx)) for idx in num_atoms])
ExpandCounts(counts) == Flatten([s \in 1..Len(counts) |-> Repeat(counts[s], counts[s])])

\* lines 196-198: torch.sqrt of the expanded counts; the square root of n is
\* kept as the term [sqrt |-> n]
SqrtAll(expanded) == [i \in 1..Len(expanded) |-> [sqrt |-> expanded[i]]]

\* torch.div of a (rows, 3) tensor by a (m, 1) tensor broadcasts when the row
\* counts agree or one of them is 1
Broadcasts(rows, m) == rows = m \/ rows = 1 \/ m = 1

BroadcastRows(rows, m) == IF rows >= m THEN rows ELSE m

Pick(len, i) == IF len = 1 THEN 1 ELSE i

\* the entries of force / sqrt(counts), flattened row by row: each is the pair
\* of the numerator f and the radicand n, standing for f / sqrt(n)
DivBySqrt(force, norm) ==
    Flatten([i \in 1..BroadcastRows(Len(force), Len(norm)) |->
                [j \in 1..3 |-> [f |-> force[Pick(Len(force), i)][j],
                                 rad |-> norm[Pick(Len(norm), i)].sqrt]]])

\* sum-reduced squared error of two tensors divided by the same sqrt(n):
\* (f/sqrt(n) - t/sqrt(n))^2 = (f - t)^2 / n, which is rational
MSESumSqrt(a, b) ==
    ERSum([i \in 1..Len(a) |->
              Fin((a[i].f - b[i].f) * (a[i].f - b[i].f), a[i].rad)])

\* torch.log of (n/d)/sqrt(rad): NaN below 0, -inf at 0, otherwise the term
\* [k |-> "ln", ...] for the logarithm of a positive number
Log(x, rad) ==
    IF x.k = "nan" THEN [k |-> "nan"]
    ELSE IF x.k = "inf" THEN (IF x.n > 0 THEN [k |-> "inf", n |-> 1] ELSE [k |-> "nan"])
    ELSE IF x.n < 0 THEN [k |-> "nan"]
    ELSE IF x.n = 0 THEN [k |-> "inf", n |-> -1]
    ELSE [k |-> "ln", n |-> x.n, d |-> x.d, rad |-> rad]

\* (a - b)^2 for two logarithms over the same radicand: ln(a) - ln(b) = ln(a/b)
LogSqDiff(a, b) ==
    IF a.k = "nan" \/ b.k = "nan" THEN [k |-> "nan"]
    ELSE IF a.k = "inf" /\ b.k = "inf"
         THEN (IF a.n = b.n THEN [k |-> "nan"] ELSE [k |-> "inf"])
    ELSE IF a.k = "inf" \/ b.k = "inf" THEN [k |-> "inf"]
    ELSE [k |-> "lnsq", r |-> Fin(a.n * b.d, a.d * b.n)]

\* the sum of squared log residuals: NaN, +inf, or the list of the ratios whose
\* squared logarithms are summed
RECURSIVE LogSum(_)
LogSum(terms) ==
    IF terms = <<>> THEN [k |-> "sum", ratios |-> <<>>]
    ELSE LET rest == LogSum(Tail(terms))
             t == terms[1]
         IN IF t.k = "nan" \/ rest.k = "nan" THEN [k |-> "nan"]
            ELSE IF t.k = "inf" \/ rest.k = "inf" THEN [k |-> "inf"]
            ELSE IF t.r = Fin(1, 1) THEN rest
            ELSE [k |-> "sum", ratios |-> <<t.r>> \o rest.ratios]

MSESumLog(a, b) == LogSum([i \in 1..Len(a) |-> LogSqDiff(a[i], b[i])])

\* a * x + b * y over such sums (a, b are positive rationals): NaN and +inf
\* absorb, otherwise the two weighted lists
LogCombine(a, x, b, y) ==
    IF x.k = "nan" \/ y.k = "nan" THEN [k |-> "nan"]
    ELSE IF x.k = "inf" \/ y.k = "inf" THEN [k |-> "inf"]
    ELSE [k |-> "sum", energy_weight |-> a, energy |-> x.ratios,
          force_weight |-> b, force |-> y.ratios]

\* l2_reg of lines 189-192: the uninitialised FloatTensor(1) plus the norms
L2Reg(start, mdl) == ERAdd(start, mdl.norm)

\* an optional argument: None, or the value given
NotGiven == [given |-> FALSE]
Given(t) == [given |-> TRUE, t |-> t]

\* a call that raises
Raised(err) == [raised |-> TRUE, err |-> err]

\* CustomLoss.forward (lines 185-207)
CustomLossForward(a, e_pred, e_targ, counts, f_pred, f_targ, mdl, start) ==
    LET energy_loss == MSESum(PerAtom(e_pred, counts), PerAtom(e_targ, counts))
        reg_lambda == Fin(0, 1)
    IN IF ~mdl.given THEN Raised("AttributeError")
       ELSE LET l2_reg == L2Reg(start, mdl)
            IN IF a > 0
               THEN LET expanded == ExpandCounts(counts)
                        norm == SqrtAll(expanded)
                    IN IF ~f_pred.given \/ ~f_targ.given THEN Raised("TypeError")
                       ELSE IF ~Broadcasts(Len(f_pred.t), Len(norm))
                            THEN Raised("RuntimeError")
                       ELSE LET force_loss ==
                                    ERMul(Fin(a, 3),
                                          MSESumSqrt(DivBySqrt(f_pred.t, norm),
                                                     DivBySqrt(f_targ.t, norm)))
                            IN [raised |-> FALSE, expanded |-> expanded, norm |-> norm,
                                loss |-> ERAdd(ERMul(Fin(1, 2),
                                                     ERAdd(energy_loss, force_loss)),
                                               ERMul(reg_lambda, l2_reg))]
               ELSE [raised |-> FALSE, expanded |-> <<>>, norm |-> <<>>,
                     loss |-> ERAdd(ERMul(Fin(1, 2), energy_loss),
                                    ERMul(reg_lambda, l2_reg))]

LogAll(t, rad) == [i \in 1..Len(t) |-> Log(t[i], rad)]

LogForces(t) == [i \in 1..Len(t) |-> Log(Fin(t[i].f, 1), t[i].rad)]

\* MSLELoss.forward (lines 227-250)
MSLELossForward(a, e_pred, e_targ, counts, f_pred, f_targ, mdl, start) ==
    LET energy_loss == MSESumLog(LogAll(PerAtom(e_pred, counts), 1),
                                 LogAll(PerAtom(e_targ, counts), 1))
    IN IF ~mdl.given THEN Raised("AttributeError")
       ELSE IF a > 0
            THEN LET expanded == ExpandCounts(counts)
                     norm == SqrtAll(expanded)
                 IN IF ~f_pred.given \/ ~f_targ.given THEN Raised("TypeError")
                    ELSE IF ~Broadcasts(Len(f_pred.t), Len(norm))
                         THEN Raised("RuntimeError")
                    ELSE LET force_sum ==
                                 MSESumLog(LogForces(DivBySqrt(f_pred.t, norm)),
                                           LogForces(DivBySqrt(f_targ.t, norm)))
                         IN [raised |-> FALSE, expanded |-> expanded, norm |-> norm,
                             loss |-> LogCombine(Fin(1, 2), energy_loss,
                                                 Fin(a, 6), force_sum)]
            ELSE [raised |-> FALSE, expanded |-> <<>>, norm |-> <<>>,
                  loss |-> LogCombine(Fin(1, 2), energy_loss,
                                      Fin(0, 1), [k |-> "sum", ratios |-> <<>>])]

\* torch.sum(torch.tanh(torch.abs(p - t))) for tensors divided by the same
\* sqrt(n): the list of the arguments |f - t| / sqrt(n) that are not 0
RECURSIVE TanhSum(_, _)
TanhSum(a, b) ==
    IF a = <<>> THEN <<>>
    ELSE (IF a[1].f = b[1].f THEN <<>>
          ELSE << [abs |-> Abs(a[1].f - b[1].f), rad |-> a[1].rad] >>)
         \o TanhSum(Tail(a), Tail(b))

\* TanhLoss.forward (lines 270-289)
TanhLossForward(a, e_pred, e_targ, counts, f_pred, f_targ, mdl, start) ==
    LET energy_loss == MSESum(PerAtom(e_pred, counts), PerAtom(e_targ, counts))
    IN IF ~mdl.given THEN Raised("AttributeError")
       ELSE IF a > 0
            THEN LET expanded == ExpandCounts(counts)
                     norm == SqrtAll(expanded)
                 IN IF ~f_pred.given \/ ~f_targ.given THEN Raised("TypeError")
                    ELSE IF ~Broadcasts(Len(f_pred.t), Len(norm))
                         THEN Raised("RuntimeError")
                    ELSE [raised |-> FALSE, expanded |-> expanded, norm |-> norm,
                          loss |-> [k |-> "tanh", energy |-> energy_loss,
                                    tanh |-> TanhSum(DivBySqrt(f_pred.t, norm),
                                                     DivBySqrt(f_targ.t, norm))]]
            ELSE [raised |-> FALSE, expanded |-> <<>>, norm |-> <<>>,
                  loss |-> energy_loss]

(* ---------------------- inputs of the losses -------------------------- *)
MaxRows == 3

Variants == {"CustomLoss", "MSLELoss", "TanhLoss"}

\* <<predicted energy, target energy>> of one structure
EnergyPairs == {<<2, 4>>, <<-1, 2>>, <<2, 0>>, <<0, 0>>}

\* model=None, or a model whose parameter norms sum to a finite value or to inf
Models == {NotGiven, [given |-> TRUE, norm |-> Fin(3, 1)], [given |-> TRUE, norm |-> PInf]}

\* what torch.FloatTensor(1) may hold: the memory is not initialised
Uninitialised == {Fin(0, 1), Fin(7, 1), NaN}

\* owner indices in the order FullNN.forward collects them
OwnerLists(n) == UNION {[1..q -> 0..(n - 1)] : q \in 1..MaxRows}

\* the number of atoms of each structure 0..n-1 among the owners
TrueCounts(owners, n) ==
    [s \in 1..n |-> Cardinality({i \in 1..Len(owners) : owners[i] = s - 1})]

ForcePreds(q) ==
    {NotGiven, Given([a \in 1..q |-> <<a, 0, -a>>]), Given([a \in 1..q |-> <<1, 2, 3>>])}

ForceTargets(q) ==
    {Given([a \in 1..q |-> <<1, 2, 1>>]), Given([a \in 1..q |-> <<a, 0, -a>>])}

\* calls without a force term: the energies and the atom counts vary
InitEnergyCalls ==
    /\ alpha = 0
    /\ \E n \in 1..MaxBatch : \E pairs \in [1..n -> EnergyPairs] :
         /\ l_energy_pred = [i \in 1..n |-> pairs[i][1]]
         /\ energy_targets = [i \in 1..n |-> pairs[i][2]]
         /\ num_atoms \in [1..n -> 1..MaxAtoms]
         /\ l_idx = [i \in 1..n |-> i - 1]
    /\ l_force_pred \in {NotGiven, Given([a \in 1..Len(l_idx) |-> <<a, 0, -a>>])}
    /\ force_targets = IF l_force_pred.given
                       THEN Given([a \in 1..Len(l_idx) |-> <<1, 2, 1>>])
                       ELSE NotGiven

\* calls with a force term: the owners of the force rows vary, and num_atoms is
\* the count of the atoms of each structure or, for a caller's mistake, one more
\* for the first structure
InitForceCalls ==
    /\ alpha = 1
    /\ \E n \in 1..MaxBatch :
         /\ l_energy_pred = [i \in 1..n |-> 2]
         /\ energy_targets = [i \in 1..n |-> 4]
         /\ l_idx \in OwnerLists(n)
         /\ num_atoms \in {TrueCounts(l_idx, n),
                           [TrueCounts(l_idx, n) EXCEPT ![1] = @ + 1]}
    /\ l_force_pred \in ForcePreds(Len(l_idx))
    /\ force_targets \in ForceTargets(Len(l_idx))

InitLoss ==
    /\ loss_pc = "call"
    /\ variant \in Variants
    /\ model \in Models
    /\ uninit = NotGiven
    /\ InitEnergyCalls \/ InitForceCalls
    /\ num_atoms_force = <<>>
    /\ normalizer = <<>>
    /\ loss = NotGiven

LossForward(v, start) ==
    IF v = "CustomLoss"
    THEN CustomLossForward(alpha, l_energy_pred, energy_targets, num_atoms,
                           l_force_pred, force_targets, model, start)
    ELSE IF v = "MSLELoss"
    THEN MSLELossForward(alpha, l_energy_pred, energy_targets, num_atoms,
                         l_force_pred, force_targets, model, start)
    ELSE TanhLossForward(alpha, l_energy_pred, energy_targets, num_atoms,
                         l_force_pred, force_targets, model, start)

\* one call of the forward method of the chosen loss
LossCall ==
    /\ loss_pc = "call"
    /\ \E start \in Uninitialised :
         \E out \in {LossForward(variant, start)} :
            /\ uninit' = start
            /\ IF out.raised
               THEN /\ loss_pc' = out.err
                    /\ UNCHANGED <<num_atoms_force, normalizer, loss>>
               ELSE /\ loss_pc' = "returned"
                    /\ num_atoms_force' = out.expanded
                    /\ normalizer' = out.norm
                    /\ loss' = out.loss
    /\ UNCHANGED <<variant, alpha, model, energy_targets, num_atoms,
                   l_energy_pred, l_idx, l_force_pred, force_targets>>
    /\ UNCHANGED <<fwdvars, mlpvars>>

IdleLoss ==
    /\ loss_pc = "idle" /\ variant = "CustomLoss" /\ alpha = 0 /\ model = NotGiven
    /\ uninit = NotGiven /\ energy_targets = <<>> /\ num_atoms = <<>>
    /\ l_energy_pred = <<>> /\ l_idx = <<>> /\ l_force_pred = NotGiven
    /\ force_targets = NotGiven /\ num_atoms_force = <<>> /\ normalizer = <<>>
    /\ loss = NotGiven

(* ========================== specifications ============================ *)
vars == <<fwdvars, mlpvars, lossvars>>

\* FullNN.forward on one batch
Init == InitForward /\ IdleMLP /\ IdleLoss
Next == Start \/ Element \/ Force \/ Return
Spec == Init /\ [][Next]_vars

\* construction and use of one MLP
InitM == IdleFwd /\ InitMLP /\ IdleLoss
NextM == MLPInit \/ MLPForward
SpecMLP == InitM /\ [][NextM]_vars

\* one call of a loss
InitL == IdleFwd /\ IdleMLP /\ InitLoss
NextL == LossCall
SpecLoss == InitL /\ [][NextL]_vars

(* ===================== properties of FullNN.forward ==================== *)
Q == TotalAtoms(input_data)

\* line 127 has run
Started == pc # "start" /\ ~(pc = "failed" /\ error = "AttributeError")

\* lines 149-151 have run
Reordered ==
    \/ forcetraining /\ pc \in {"return", "done"}
    \/ pc = "failed" /\ error = "RuntimeError"

\* forward has returned a value
Returned == pc = "done"

\* the atoms of element e owned by structure s
OwnedAtoms(e, s) ==
    IF e \in DOMAIN input_data
    THEN {k \in 1..Len(input_data[e][2]) : input_data[e][2][k] = s}
    ELSE {}

RECURSIVE SumOutputs(_, _)
SumOutputs(e, K) ==
    IF K = {} THEN 0
    ELSE LET k == CHOOSE x \in K : TRUE
         IN NetOut(e, input_data[e][1][k]) + SumOutputs(e, K \ {k})

\* sum of the sub-network outputs of the atoms owned by s, first k elements
RECURSIVE ExpectedRow(_, _)
ExpectedRow(s, k) ==
    IF k = 0 THEN 0
    ELSE ExpectedRow(s, k - 1) + SumOutputs(unique_atoms[k], OwnedAtoms(unique_atoms[k], s))

\* C1: after the k-th element has been processed every row s of energy_pred
\* holds the sum of the sub-network outputs of exactly the atoms of the first
\* k elements whose owner index is s (several atoms of a structure add up, no
\* output reaches another row, a structure without atoms keeps 0), and the
\* returned energy_pred is that sum over all elements of the model.
C1_Accumulation ==
    /\ Started =>
         /\ DOMAIN energy_pred = 0..(batch_size - 1)
         /\ \A s \in 0..(batch_size - 1) : energy_pred[s] = ExpectedRow(s, index)
    /\ pc = "done" =>
         /\ index = Len(unique_atoms)
         /\ \A s \in 0..(batch_size - 1) :
                result[1][s] = ExpectedRow(s, Len(unique_atoms))

C1_Witness ==
    /\ pc = "done"
    /\ Len(unique_atoms) = 2
    /\ batch_size = 2
    /\ \E e \in Symbols : Cardinality(OwnedAtoms(e, 0)) = 2
    /\ \A e \in Symbols : OwnedAtoms(e, 1) = {}
    /\ result[1][1] = 0
    /\ result[1][0] > 3

\* FullNN.forward as a function of the element order (the same batch, the same
\* sub-networks, the same SparseForceMap)
RECURSIVE RunLoop(_, _, _)
RunLoop(st, order, i) ==
    IF i > Len(order) \/ ~st.ok THEN st
    ELSE RunLoop(LoopBody(st, input_data, order[i], forcetraining, input_length),
                 order, i + 1)

ForwardOf(order) ==
    IF forcetraining /\ fprimes = None THEN [ok |-> FALSE]
    ELSE LET st == RunLoop(LoopInit(batch_size), order, 1)
         IN IF ~st.ok THEN [ok |-> FALSE]
            ELSE IF ~forcetraining
                 THEN [ok |-> TRUE, energy_pred |-> st.energy_pred, force_pred |-> None]
                 ELSE LET t == ForceTail(st.dE_dFP, st.idx, fprimes)
                      IN IF ~t.ok THEN [ok |-> FALSE]
                         ELSE [ok |-> TRUE, energy_pred |-> st.energy_pred,
                               force_pred |-> t.force_pred]

\* C2: a model that iterates its elements in another order returns the same
\* energy_pred and the same force_pred for the same batch and SparseForceMap.
C2_OrderIndependent ==
    pc = "done" =>
        \A o \in Perms(unique_atoms) :
            ForwardOf(o) = [ok |-> TRUE, energy_pred |-> result[1],
                            force_pred |-> result[2]]

\* C3: forward never returns when the batch holds an ElementGroup of an element
\* that has no sub-network in the model.
C3_UnknownElementFails ==
    (\E e \in DOMAIN input_data : e \notin Range(unique_atoms)) => pc # "done"

BatchMatchesModel == DOMAIN input_data = Range(unique_atoms)

ForwardShapes ==
    /\ DOMAIN result[1] = 0..(batch_size - 1)
    /\ Len(dE_row) = input_length * Q
    /\ MMValid(Transpose(fprimes), dE_row)
    /\ Len(result[2]) = Q
    /\ \A a \in 1..Q : Len(result[2][a]) = 3

\* C6 (as stated): with forcetraining and a SparseForceMap of shape (3Q, PQ),
\* forward completes with energy_pred of batch_size rows and force_pred (Q, 3).
C6_Shape3QxPQ ==
    ( /\ forcetraining
      /\ fprimes # None
      /\ fprimes.rows = 3 * Q
      /\ fprimes.cols = input_length * Q
      /\ BatchMatchesModel )
    => /\ pc # "failed"
       /\ pc = "done" => ForwardShapes

\* C6 (amended): with forcetraining, a batch whose groups are those of the
\* model's elements and a SparseForceMap of shape (PQ, 3Q), forward completes
\* with energy_pred of batch_size rows, a gradient row of length PQ and
\* force_pred of shape (Q, 3).
C6_ShapePQx3Q ==
    ( /\ forcetraining
      /\ fprimes # None
      /\ fprimes.rows = input_length * Q
      /\ fprimes.cols = 3 * Q
      /\ BatchMatchesModel )
    => /\ pc # "failed"
       /\ pc = "done" => ForwardShapes

C6_Witness ==
    /\ pc = "done"
    /\ forcetraining
    /\ input_length = 2
    /\ Q = 3
    /\ batch_size = 2
    /\ fprimes.rows = 6
    /\ fprimes.cols = 9
    /\ Len(result[2]) = 3

\* the owner indices in arrival order: element by element, then by position
RECURSIVE ArrivalOwners(_)
ArrivalOwners(k) ==
    IF k = 0 THEN <<>>
    ELSE ArrivalOwners(k - 1) \o input_data[unique_atoms[k]][2]

\* C8: the reorder step is a permutation of the collected gradient rows, in
\* ascending order of the recorded owner index, rows of one owner keeping the
\* order in which they were appended.
C8_StableReorder ==
    Reordered =>
        /\ idx = ArrivalOwners(Len(unique_atoms))
        /\ Len(dE_dFP) = Len(idx)
        /\ Len(ordered_idx) = Len(idx)
        /\ Range(ordered_idx) = 1..Len(idx)
        /\ \A i, j \in 1..Len(ordered_idx) :
              i < j => /\ idx[ordered_idx[i]] <= idx[ordered_idx[j]]
                       /\ idx[ordered_idx[i]] = idx[ordered_idx[j]]
                            => ordered_idx[i] < ordered_idx[j]
        /\ dE_row = Flatten([i \in 1..Len(idx) |-> dE_dFP[ordered_idx[i]]])

C8_Witness ==
    /\ pc = "done"
    /\ forcetraining
    /\ Len(idx) = 4
    /\ idx = <<1, 0, 0, 1>>
    /\ ordered_idx = <<2, 3, 1, 4>>

MissingElements == {i \in 1..Len(unique_atoms) : unique_atoms[i] \notin DOMAIN input_data}

FirstMissing == CHOOSE i \in MissingElements : \A j \in MissingElements : i <= j

\* C10: forward fails on every batch that lacks the group of an element of
\* unique_atoms: nothing is returned, and the failure happens when the loop
\* reaches the first such element.
C10_MissingGroupFails ==
    MissingElements # {} =>
        /\ pc \notin {"return", "done"}
        /\ ~Returned
        /\ pc = "loop" => index < FirstMissing
        /\ (pc = "failed" /\ error = "KeyError") => index = FirstMissing - 1

C10_Witness ==
    /\ pc = "failed"
    /\ error = "KeyError"
    /\ DOMAIN input_data \subseteq Range(unique_atoms)
    /\ index = 1
    /\ energy_pred[0] # 0

(* ========================= properties of MLP =========================== *)
\* C4: constructing an MLP with n_layers = L and a list of hidden widths fails
\* exactly when the length of the list is not L - 1.
C4_HiddenLengthChecked ==
    (~n_hidden_size.int /\ mlp_pc \notin {"idle", "new"}) =>
        (mlp_pc = "init_failed" <=> Len(n_hidden_size.sizes) # n_layers - 1)

(* ======================= properties of the losses ====================== *)
Called == loss_pc \notin {"idle", "call"}

NonPositive(x) == (x.k = "fin" /\ x.n <= 0) \/ (x.k = "inf" /\ x.n < 0)

SomeAverageNonPositive ==
    \E i \in 1..Len(num_atoms) :
        \/ NonPositive(PerAtom(l_energy_pred, num_atoms)[i])
        \/ NonPositive(PerAtom(energy_targets, num_atoms)[i])

\* C5: MSLELoss.forward raises, and returns no loss value, whenever a predicted
\* or target per-atom-average energy is <= 0.
C5_LogDomainRaises ==
    (Called /\ variant = "MSLELoss" /\ model.given /\ SomeAverageNonPositive)
        => loss_pc # "returned"

\* sum((pred/n - target/n)^2), term by term
SquaredResiduals ==
    ERSum([i \in 1..Len(num_atoms) |->
              Fin((l_energy_pred[i] - energy_targets[i])
                      * (l_energy_pred[i] - energy_targets[i]),
                  num_atoms[i] * num_atoms[i])])

\* C7: with force_coefficient = 0 and positive atom counts, CustomLoss returns
\* 0.5 * sum((pred/n - target/n)^2) and TanhLoss returns
\* sum((pred/n - target/n)^2), twice the value of CustomLoss on the same call.
C7_ZeroForceCoefficient ==
    (loss_pc = "returned" /\ alpha = 0 /\ \A i \in 1..Len(num_atoms) : num_atoms[i] > 0)
        => /\ variant = "CustomLoss" => loss = ERMul(Fin(1, 2), SquaredResiduals)
           /\ variant = "TanhLoss" =>
                /\ loss = SquaredResiduals
                /\ loss = ERMul(Fin(2, 1), LossForward("CustomLoss", uninit).loss)

\* the owner of the atom of row i of force_pred: forward reorders the rows by
\* ascending owner index
RowOwner(i) == l_idx[OrderedIdx(l_idx)[i]]

\* the number of entries of the expanded vector that precede structure s
Offset(s) == SumSeq([r \in 1..(s - 1) |-> num_atoms[r]])

\* C9: the expanded atom-count vector has sum(num_atoms) entries, structure by
\* structure, num_atoms[s] copies of num_atoms[s]; and when num_atoms[s] is the
\* number of atoms owned by s, for every s, it has Q entries and the entry that
\* normalizes row i of force_pred (through its square root) is the atom count
\* of the structure that owns the atom of row i.
C9_ExpandedCounts ==
    (loss_pc = "returned" /\ alpha > 0) =>
        /\ Len(num_atoms_force) = SumSeq(num_atoms)
        /\ Len(normalizer) = Len(num_atoms_force)
        /\ \A s \in 1..Len(num_atoms) : \A j \in 1..num_atoms[s] :
               num_atoms_force[Offset(s) + j] = num_atoms[s]
        /\ num_atoms = TrueCounts(l_idx, Len(num_atoms)) =>
               /\ Len(num_atoms_force) = Len(l_idx)
               /\ \A i \in 1..Len(l_idx) :
                      /\ num_atoms_force[i] = num_atoms[RowOwner(i) + 1]
                      /\ normalizer[i] = [sqrt |-> num_atoms[RowOwner(i) + 1]]

C9_Witness ==
    /\ loss_pc = "returned"
    /\ alpha > 0
    /\ l_idx = <<1, 0, 1>>
    /\ num_atoms = <<1, 2>>
    /\ num_atoms_force = <<1, 2, 2>>
    /\ Len(l_force_pred.t) = 3

=============================================================================
